---------------------------- MODULE Spec2Model ----------------------------
(***************************************************************************)
(* Model of the Hello example library (examples/hello/src/hello.c): the    *)
(* greeter lifecycle over an explicit heap, the bounded formatting done by *)
(* greet, and the thread-local error channel.                              *)
(*                                                                         *)
(* A C string is a sequence of one-character strings; a `const char *`     *)
(* argument is <<>> for a null pointer and <<s>> for a pointer to s.       *)
(* A heap pointer is an address in Addr, or NULL.                          *)
(***************************************************************************)
EXTENDS Integers, Sequences, FiniteSets, TLC

VARIABLES heap, g_error_buffer, g_has_error, handles, last

vars == <<heap, g_error_buffer, g_has_error, handles, last>>

-----------------------------------------------------------------------------
(* Bounds of the model *)

\* number of heap blocks malloc can hand out before it is exhausted
MaxBlocks == 7
\* largest buffer capacity passed to greet
MaxCap == 14
\* most greeters held at one time where several are held
MaxLive == 2

(* Constants of hello.c *)

ERROR_BUFFER_SIZE == 1024
MAX_NAME_LENGTH == 256
HELLO_VERSION == <<"1",".","0",".","0">>
NULL == 0
INT_MAX == (2^30 - 1) + 2^30

\* the two threads of the claims, each with its own error channel
Threads == {"A", "B"}
Addr == 1..MaxBlocks

-----------------------------------------------------------------------------
(* Strings *)

NullStr == <<>>
Str(s) == <<s>>

Min(a, b) == IF a < b THEN a ELSE b

\* the first n characters of s (all of s when it is shorter)
Take(s, n) == SubSeq(s, 1, Min(n, Len(s)))

\* n copies of the character c
Rep(c, n) == [i \in 1..n |-> c]

LowerCase == <<"a","b","c","d","e","f","g","h","i","j","k","l","m","n","o","p","q","r","s","t","u","v","w","x","y","z">>
UpperCase == <<"A","B","C","D","E","F","G","H","I","J","K","L","M","N","O","P","Q","R","S","T","U","V","W","X","Y","Z">>

\* toupper() of <ctype.h> in the "C" locale
toupper(c) ==
    IF \E i \in 1..Len(LowerCase) : LowerCase[i] = c
    THEN UpperCase[CHOOSE i \in 1..Len(LowerCase) : LowerCase[i] = c]
    ELSE c

\* str_to_upper: every character up to the terminator, in place
str_to_upper(str) == [i \in 1..Len(str) |-> toupper(str[i])]

Digits == <<"0","1","2","3","4","5","6","7","8","9">>

\* what %d / %zu print for a natural number
RECURSIVE Dec(_)
Dec(n) == IF n < 10 THEN <<Digits[n + 1]>>
          ELSE Dec(n \div 10) \o <<Digits[(n % 10) + 1]>>

\* snprintf(buf, size, ...) for size > 0, where s is the full rendering:
\* buf receives at most size-1 characters and a terminator, the return value
\* is the length of the full rendering, or negative when it exceeds INT_MAX
snprintf(size, s) ==
    [buf |-> Take(s, size - 1),
     ret |-> IF Len(s) > INT_MAX THEN -1 ELSE Len(s)]

-----------------------------------------------------------------------------
(* Thread-local error channel *)

\* mutant: one buffer and one flag shared by every thread (no _Thread_local)
hello_set_error_global(t, msg) ==
    [buffer |-> [u \in Threads |-> snprintf(ERROR_BUFFER_SIZE, msg).buf],
     has    |-> [u \in Threads |-> TRUE]]

\* hello_set_error on thread t, msg being the full rendering of fmt and args
hello_set_error(t, msg) ==
    [buffer |-> [g_error_buffer EXCEPT ![t] = snprintf(ERROR_BUFFER_SIZE, msg).buf],
     has    |-> [g_has_error EXCEPT ![t] = TRUE]]

hello_get_last_error(t) == IF g_has_error[t] THEN g_error_buffer[t] ELSE <<>>

hello_has_error(t) == g_has_error[t]

\* mutant: the message is emptied and the flag is left as it was
hello_clear_error_keeps_flag(t) ==
    [buffer |-> [g_error_buffer EXCEPT ![t] = <<>>],
     has    |-> g_has_error]

hello_clear_error(t) ==
    [buffer |-> [g_error_buffer EXCEPT ![t] = <<>>],
     has    |-> [g_has_error EXCEPT ![t] = FALSE]]

\* the channel after a call that reported err: <<>> when it called
\* hello_set_error not at all, <<msg>> when it called it with msg
Raise(t, err) ==
    IF err = <<>> THEN [buffer |-> g_error_buffer, has |-> g_has_error]
    ELSE hello_set_error(t, err[1])

-----------------------------------------------------------------------------
(* Heap *)

FreeBlock == [kind |-> "free", str |-> <<>>, name |-> NULL, greeting |-> NULL,
              uppercase |-> FALSE]
StrBlock(s) == [FreeBlock EXCEPT !.kind = "str", !.str = s]
\* calloc(1, sizeof(Hello_Greeter)): all fields zero
GreeterBlock == [FreeBlock EXCEPT !.kind = "greeter"]

Live(h) == {a \in Addr : h[a].kind # "free"}

\* malloc / calloc: NULL when the allocation fails or no block is left,
\* otherwise a block that is not live
malloc(h, fail) ==
    IF fail \/ Live(h) = Addr THEN NULL
    ELSE CHOOSE a \in Addr \ Live(h) : \A b \in Addr \ Live(h) : a <= b

free(h, p) == IF p = NULL THEN h ELSE [h EXCEPT ![p] = FreeBlock]


NameOf(h, greeter) == h[h[greeter].name].str
GreetingOf(h, greeter) == h[h[greeter].greeting].str

-----------------------------------------------------------------------------
(* Private functions *)

safe_strdup(h, str, fail) ==
    IF str = NullStr THEN [ptr |-> NULL, heap |-> h, err |-> <<>>]
    ELSE LET len  == Len(str[1])
             copy == malloc(h, fail)
         IN  IF copy = NULL
             THEN [ptr |-> NULL, heap |-> h,
                   err |-> <<<<"F","a","i","l","e","d"," ","t","o"," ","a","l","l","o","c","a","t","e"," ","s","t","r","i","n","g"," ","o","f"," ","l","e","n","g","t","h"," ">> \o Dec(len)>>]
             ELSE [ptr |-> copy, heap |-> [h EXCEPT ![copy] = StrBlock(str[1])],
                   err |-> <<>>]

\* mutant: the bound test reads len > MAX_NAME_LENGTH
validate_name_off_by_one(name) ==
    IF name = NullStr
    THEN [ok |-> FALSE, err |-> <<<<"N","a","m","e"," ","c","a","n","n","o","t"," ","b","e"," ","N","U","L","L">>>>]
    ELSE LET len == Len(name[1])
         IN  IF len = 0
             THEN [ok |-> FALSE, err |-> <<<<"N","a","m","e"," ","c","a","n","n","o","t"," ","b","e"," ","e","m","p","t","y">>>>]
             ELSE IF len > MAX_NAME_LENGTH
             THEN [ok |-> FALSE,
                   err |-> <<<<"N","a","m","e"," ","t","o","o"," ","l","o","n","g"," ","(">> \o Dec(len) \o <<" ","c","h","a","r","s",","," ","m","a","x"," ">>
                             \o Dec(MAX_NAME_LENGTH - 1) \o <<")">>>>]
             ELSE [ok |-> TRUE, err |-> <<>>]

\* mutant: the test for an empty name is missing
validate_name_allows_empty(name) ==
    IF name = NullStr
    THEN [ok |-> FALSE, err |-> <<<<"N","a","m","e"," ","c","a","n","n","o","t"," ","b","e"," ","N","U","L","L">>>>]
    ELSE LET len == Len(name[1])
         IN  IF len >= MAX_NAME_LENGTH
             THEN [ok |-> FALSE,
                   err |-> <<<<"N","a","m","e"," ","t","o","o"," ","l","o","n","g"," ","(">> \o Dec(len) \o <<" ","c","h","a","r","s",","," ","m","a","x"," ">>
                             \o Dec(MAX_NAME_LENGTH - 1) \o <<")">>>>]
             ELSE [ok |-> TRUE, err |-> <<>>]

validate_name(name) ==
    IF name = NullStr
    THEN [ok |-> FALSE, err |-> <<<<"N","a","m","e"," ","c","a","n","n","o","t"," ","b","e"," ","N","U","L","L">>>>]
    ELSE LET len == Len(name[1])
         IN  IF len = 0
             THEN [ok |-> FALSE, err |-> <<<<"N","a","m","e"," ","c","a","n","n","o","t"," ","b","e"," ","e","m","p","t","y">>>>]
             ELSE IF len >= MAX_NAME_LENGTH
             THEN [ok |-> FALSE,
                   err |-> <<<<"N","a","m","e"," ","t","o","o"," ","l","o","n","g"," ","(">> \o Dec(len) \o <<" ","c","h","a","r","s",","," ","m","a","x"," ">>
                             \o Dec(MAX_NAME_LENGTH - 1) \o <<")">>>>]
             ELSE [ok |-> TRUE, err |-> <<>>]

-----------------------------------------------------------------------------
(* Public functions: each gives the call's return value, the heap it leaves *)
(* and the error it reported, from the heap h it started on.  failAt = k    *)
(* makes the k-th allocation of the call fail (0: none is made to fail).    *)

HELLO_GREETER_CONFIG_DEFAULT ==
    [name |-> Str(<<"W","o","r","l","d">>), greeting |-> Str(<<"H","e","l","l","o">>), uppercase |-> FALSE]

\* mutant: when the greeting copy fails the name copy is not freed
hello_greeter_create_leaks_name(h, config, failAt) ==
    LET cfg      == IF config = <<>> THEN HELLO_GREETER_CONFIG_DEFAULT ELSE config[1]
        name     == IF cfg.name # NullStr THEN cfg.name ELSE Str(<<"W","o","r","l","d">>)
        greeting == IF cfg.greeting # NullStr THEN cfg.greeting ELSE Str(<<"H","e","l","l","o">>)
        v        == validate_name(name)
        greeter  == malloc(h, failAt = 1)
        h1       == [h EXCEPT ![greeter] = GreeterBlock]
        n        == safe_strdup(h1, name, failAt = 2)
        h2       == [n.heap EXCEPT ![greeter].name = n.ptr]
        g        == safe_strdup(h2, greeting, failAt = 3)
    IN  IF ~v.ok THEN [ret |-> NULL, heap |-> h, err |-> v.err]
        ELSE IF greeter = NULL
        THEN [ret |-> NULL, heap |-> h,
              err |-> <<<<"F","a","i","l","e","d"," ","t","o"," ","a","l","l","o","c","a","t","e"," ","H","e","l","l","o","_","G","r","e","e","t","e","r">>>>]
        ELSE IF n.ptr = NULL
        THEN [ret |-> NULL, heap |-> free(n.heap, greeter), err |-> n.err]
        ELSE IF g.ptr = NULL
        THEN [ret |-> NULL, heap |-> free(g.heap, greeter), err |-> g.err]
        ELSE [ret |-> greeter,
              heap |-> [g.heap EXCEPT ![greeter].greeting = g.ptr,
                                      ![greeter].uppercase = cfg.uppercase],
              err |-> <<>>]

\* mutant: a configuration that omits either field gets both defaults
hello_greeter_create_joint_defaults(h, config, failAt) ==
    LET cfg      == IF config = <<>> THEN HELLO_GREETER_CONFIG_DEFAULT ELSE config[1]
        partial  == cfg.name = NullStr \/ cfg.greeting = NullStr
        name     == IF ~partial THEN cfg.name ELSE Str(<<"W","o","r","l","d">>)
        greeting == IF ~partial THEN cfg.greeting ELSE Str(<<"H","e","l","l","o">>)
        v        == validate_name(name)
        greeter  == malloc(h, failAt = 1)
        h1       == [h EXCEPT ![greeter] = GreeterBlock]
        n        == safe_strdup(h1, name, failAt = 2)
        h2       == [n.heap EXCEPT ![greeter].name = n.ptr]
        g        == safe_strdup(h2, greeting, failAt = 3)
    IN  IF ~v.ok THEN [ret |-> NULL, heap |-> h, err |-> v.err]
        ELSE IF greeter = NULL
        THEN [ret |-> NULL, heap |-> h,
              err |-> <<<<"F","a","i","l","e","d"," ","t","o"," ","a","l","l","o","c","a","t","e"," ","H","e","l","l","o","_","G","r","e","e","t","e","r">>>>]
        ELSE IF n.ptr = NULL
        THEN [ret |-> NULL, heap |-> free(n.heap, greeter), err |-> n.err]
        ELSE IF g.ptr = NULL
        THEN [ret |-> NULL,
              heap |-> free(free(g.heap, h2[greeter].name), greeter),
              err |-> g.err]
        ELSE [ret |-> greeter,
              heap |-> [g.heap EXCEPT ![greeter].greeting = g.ptr,
                                      ![greeter].uppercase = cfg.uppercase],
              err |-> <<>>]

hello_greeter_create(h, config, failAt) ==
    LET cfg      == IF config = <<>> THEN HELLO_GREETER_CONFIG_DEFAULT ELSE config[1]
        name     == IF cfg.name # NullStr THEN cfg.name ELSE Str(<<"W","o","r","l","d">>)
        greeting == IF cfg.greeting # NullStr THEN cfg.greeting ELSE Str(<<"H","e","l","l","o">>)
        v        == validate_name(name)
        greeter  == malloc(h, failAt = 1)
        h1       == [h EXCEPT ![greeter] = GreeterBlock]
        n        == safe_strdup(h1, name, failAt = 2)
        h2       == [n.heap EXCEPT ![greeter].name = n.ptr]
        g        == safe_strdup(h2, greeting, failAt = 3)
    IN  IF ~v.ok THEN [ret |-> NULL, heap |-> h, err |-> v.err]
        ELSE IF greeter = NULL
        THEN [ret |-> NULL, heap |-> h,
              err |-> <<<<"F","a","i","l","e","d"," ","t","o"," ","a","l","l","o","c","a","t","e"," ","H","e","l","l","o","_","G","r","e","e","t","e","r">>>>]
        ELSE IF n.ptr = NULL
        THEN [ret |-> NULL, heap |-> free(n.heap, greeter), err |-> n.err]
        ELSE IF g.ptr = NULL
        THEN [ret |-> NULL,
              heap |-> free(free(g.heap, h2[greeter].name), greeter),
              err |-> g.err]
        ELSE [ret |-> greeter,
              heap |-> [g.heap EXCEPT ![greeter].greeting = g.ptr,
                                      ![greeter].uppercase = cfg.uppercase],
              err |-> <<>>]

hello_greeter_destroy(h, greeter) ==
    IF greeter = NULL THEN h
    ELSE free(free(free(h, h[greeter].name), h[greeter].greeting), greeter)

\* mutant: the shortfall test reads written > buffer_size
hello_greeter_greet_strict_shortfall(h, greeter, bufNull, buffer_size) ==
    LET full == GreetingOf(h, greeter) \o <<","," ">> \o NameOf(h, greeter) \o <<"!">>
        w    == snprintf(buffer_size, full)
    IN  IF greeter = NULL
        THEN [ret |-> -1, buf |-> <<>>, err |-> <<<<"g","r","e","e","t","e","r"," ","i","s"," ","N","U","L","L">>>>]
        ELSE IF bufNull \/ buffer_size = 0
        THEN [ret |-> -1, buf |-> <<>>, err |-> <<<<"I","n","v","a","l","i","d"," ","o","u","t","p","u","t"," ","b","u","f","f","e","r">>>>]
        ELSE IF w.ret < 0
        THEN [ret |-> -1, buf |-> <<w.buf>>, err |-> <<<<"F","o","r","m","a","t","t","i","n","g"," ","f","a","i","l","e","d">>>>]
        ELSE [ret |-> w.ret,
              buf |-> <<IF h[greeter].uppercase THEN str_to_upper(w.buf) ELSE w.buf>>,
              err |-> IF w.ret > buffer_size
                      THEN <<<<"B","u","f","f","e","r"," ","t","o","o"," ","s","m","a","l","l"," ","(","n","e","e","d"," ">> \o Dec(w.ret + 1)
                             \o <<","," ","h","a","v","e"," ">> \o Dec(buffer_size) \o <<")">>>>
                      ELSE <<>>]

\* mutant: the shortfall test counts the terminator twice
hello_greeter_greet_early_shortfall(h, greeter, bufNull, buffer_size) ==
    LET full == GreetingOf(h, greeter) \o <<","," ">> \o NameOf(h, greeter) \o <<"!">>
        w    == snprintf(buffer_size, full)
    IN  IF greeter = NULL
        THEN [ret |-> -1, buf |-> <<>>, err |-> <<<<"g","r","e","e","t","e","r"," ","i","s"," ","N","U","L","L">>>>]
        ELSE IF bufNull \/ buffer_size = 0
        THEN [ret |-> -1, buf |-> <<>>, err |-> <<<<"I","n","v","a","l","i","d"," ","o","u","t","p","u","t"," ","b","u","f","f","e","r">>>>]
        ELSE IF w.ret < 0
        THEN [ret |-> -1, buf |-> <<w.buf>>, err |-> <<<<"F","o","r","m","a","t","t","i","n","g"," ","f","a","i","l","e","d">>>>]
        ELSE [ret |-> w.ret,
              buf |-> <<IF h[greeter].uppercase THEN str_to_upper(w.buf) ELSE w.buf>>,
              err |-> IF w.ret + 1 >= buffer_size
                      THEN <<<<"B","u","f","f","e","r"," ","t","o","o"," ","s","m","a","l","l"," ","(","n","e","e","d"," ">> \o Dec(w.ret + 1)
                             \o <<","," ","h","a","v","e"," ">> \o Dec(buffer_size) \o <<")">>>>
                      ELSE <<>>]

\* mutant: a truncated result is not uppercased
hello_greeter_greet_upper_if_fits(h, greeter, bufNull, buffer_size) ==
    LET full == GreetingOf(h, greeter) \o <<","," ">> \o NameOf(h, greeter) \o <<"!">>
        w    == snprintf(buffer_size, full)
    IN  IF greeter = NULL
        THEN [ret |-> -1, buf |-> <<>>, err |-> <<<<"g","r","e","e","t","e","r"," ","i","s"," ","N","U","L","L">>>>]
        ELSE IF bufNull \/ buffer_size = 0
        THEN [ret |-> -1, buf |-> <<>>, err |-> <<<<"I","n","v","a","l","i","d"," ","o","u","t","p","u","t"," ","b","u","f","f","e","r">>>>]
        ELSE IF w.ret < 0
        THEN [ret |-> -1, buf |-> <<w.buf>>, err |-> <<<<"F","o","r","m","a","t","t","i","n","g"," ","f","a","i","l","e","d">>>>]
        ELSE [ret |-> w.ret,
              buf |-> <<IF h[greeter].uppercase /\ w.ret < buffer_size THEN str_to_upper(w.buf) ELSE w.buf>>,
              err |-> IF w.ret >= buffer_size
                      THEN <<<<"B","u","f","f","e","r"," ","t","o","o"," ","s","m","a","l","l"," ","(","n","e","e","d"," ">> \o Dec(w.ret + 1)
                             \o <<","," ","h","a","v","e"," ">> \o Dec(buffer_size) \o <<")">>>>
                      ELSE <<>>]

\* buf is <<>> when the buffer was not written, <<s>> when it holds s
hello_greeter_greet(h, greeter, bufNull, buffer_size) ==
    LET full == GreetingOf(h, greeter) \o <<","," ">> \o NameOf(h, greeter) \o <<"!">>
        w    == snprintf(buffer_size, full)
    IN  IF greeter = NULL
        THEN [ret |-> -1, buf |-> <<>>, err |-> <<<<"g","r","e","e","t","e","r"," ","i","s"," ","N","U","L","L">>>>]
        ELSE IF bufNull \/ buffer_size = 0
        THEN [ret |-> -1, buf |-> <<>>, err |-> <<<<"I","n","v","a","l","i","d"," ","o","u","t","p","u","t"," ","b","u","f","f","e","r">>>>]
        ELSE IF w.ret < 0
        THEN [ret |-> -1, buf |-> <<w.buf>>, err |-> <<<<"F","o","r","m","a","t","t","i","n","g"," ","f","a","i","l","e","d">>>>]
        ELSE [ret |-> w.ret,
              buf |-> <<IF h[greeter].uppercase THEN str_to_upper(w.buf) ELSE w.buf>>,
              err |-> IF w.ret >= buffer_size
                      THEN <<<<"B","u","f","f","e","r"," ","t","o","o"," ","s","m","a","l","l"," ","(","n","e","e","d"," ">> \o Dec(w.ret + 1)
                             \o <<","," ","h","a","v","e"," ">> \o Dec(buffer_size) \o <<")">>>>
                      ELSE <<>>]

hello_greeter_get_name(h, greeter) ==
    IF greeter = NULL
    THEN [ret |-> NULL, err |-> <<<<"g","r","e","e","t","e","r"," ","i","s"," ","N","U","L","L">>>>]
    ELSE [ret |-> h[greeter].name, err |-> <<>>]

\* mutant: the old name is freed before the new copy is allocated
hello_greeter_set_name_frees_first(h, greeter, name, fail) ==
    LET v  == validate_name(name)
        h0 == free(h, h[greeter].name)
        d  == safe_strdup(h0, name, fail)
    IN  IF greeter = NULL
        THEN [ret |-> FALSE, heap |-> h, err |-> <<<<"g","r","e","e","t","e","r"," ","i","s"," ","N","U","L","L">>>>]
        ELSE IF ~v.ok THEN [ret |-> FALSE, heap |-> h, err |-> v.err]
        ELSE IF d.ptr = NULL
        THEN [ret |-> FALSE, heap |-> d.heap, err |-> d.err]
        ELSE [ret |-> TRUE, heap |-> [d.heap EXCEPT ![greeter].name = d.ptr],
              err |-> <<>>]

hello_greeter_set_name(h, greeter, name, fail) ==
    LET v == validate_name(name)
        d == safe_strdup(h, name, fail)
    IN  IF greeter = NULL
        THEN [ret |-> FALSE, heap |-> h, err |-> <<<<"g","r","e","e","t","e","r"," ","i","s"," ","N","U","L","L">>>>]
        ELSE IF ~v.ok THEN [ret |-> FALSE, heap |-> h, err |-> v.err]
        ELSE IF d.ptr = NULL THEN [ret |-> FALSE, heap |-> d.heap, err |-> d.err]
        ELSE [ret |-> TRUE,
              heap |-> [free(d.heap, h[greeter].name) EXCEPT ![greeter].name = d.ptr],
              err |-> <<>>]

hello_get_version == HELLO_VERSION

-----------------------------------------------------------------------------
(* Arguments the callers pass *)

ShortName == <<"A","l">>
LongestName == Rep("x", MAX_NAME_LENGTH - 1)
TooLongName == Rep("x", MAX_NAME_LENGTH)

NameArgs == {NullStr, Str(<<>>), Str(ShortName), Str(LongestName), Str(TooLongName),
             Str(Rep("x", MAX_NAME_LENGTH + 1))}
GreetingArgs == {NullStr, Str(<<>>), Str(<<"H","i">>)}
ConfigArgs ==
    {<<>>} \cup {<<[name |-> n, greeting |-> g, uppercase |-> u]>> :
                   n \in NameArgs, g \in GreetingArgs, u \in BOOLEAN}
SizeArgs == 0..MaxCap
MessageArgs == {<<>>, <<"T","e","s","t"," ","e","r","r","o","r"," ","4","2">>, Rep("e", ERROR_BUFFER_SIZE)}

-----------------------------------------------------------------------------
(* The calls, each run to completion on the calling thread t.  handles is   *)
(* the set of greeters returned and not yet destroyed; last records the     *)
(* latest call, its arguments and what it returned.                         *)

NoCall ==
    [op |-> "none", tid |-> "A", greeter |-> NULL, name |-> NullStr,
     config |-> <<>>, failAt |-> 0, bufNull |-> FALSE, size |-> 0,
     ptr |-> NULL, int |-> 0, ok |-> FALSE, buf |-> <<>>, msg |-> <<>>]

Call(op, t) == [NoCall EXCEPT !.op = op, !.tid = t]

Init ==
    /\ heap = [a \in Addr |-> FreeBlock]
    /\ g_error_buffer = [t \in Threads |-> <<>>]
    /\ g_has_error = [t \in Threads |-> FALSE]
    /\ handles = {}
    /\ last = NoCall

Create(t, config, failAt) ==
    LET r == hello_greeter_create(heap, config, failAt)
        e == Raise(t, r.err)
    IN  /\ heap' = r.heap
        /\ g_error_buffer' = e.buffer
        /\ g_has_error' = e.has
        /\ handles' = IF r.ret = NULL THEN handles ELSE handles \cup {r.ret}
        /\ last' = [Call("create", t) EXCEPT !.config = config, !.failAt = failAt,
                                             !.ptr = r.ret]

Destroy(t, greeter) ==
    /\ heap' = hello_greeter_destroy(heap, greeter)
    /\ handles' = handles \ {greeter}
    /\ last' = [Call("destroy", t) EXCEPT !.greeter = greeter]
    /\ UNCHANGED <<g_error_buffer, g_has_error>>

Greet(t, greeter, bufNull, size) ==
    LET r == hello_greeter_greet(heap, greeter, bufNull, size)
        e == Raise(t, r.err)
    IN  /\ g_error_buffer' = e.buffer
        /\ g_has_error' = e.has
        /\ last' = [Call("greet", t) EXCEPT !.greeter = greeter, !.bufNull = bufNull,
                                            !.size = size, !.int = r.ret,
                                            !.buf = r.buf]
        /\ UNCHANGED <<heap, handles>>

GetName(t, greeter) ==
    LET r == hello_greeter_get_name(heap, greeter)
        e == Raise(t, r.err)
    IN  /\ g_error_buffer' = e.buffer
        /\ g_has_error' = e.has
        /\ last' = [Call("get_name", t) EXCEPT !.greeter = greeter, !.ptr = r.ret]
        /\ UNCHANGED <<heap, handles>>

SetName(t, greeter, name, fail) ==
    LET r == hello_greeter_set_name(heap, greeter, name, fail)
        e == Raise(t, r.err)
    IN  /\ heap' = r.heap
        /\ g_error_buffer' = e.buffer
        /\ g_has_error' = e.has
        /\ last' = [Call("set_name", t) EXCEPT !.greeter = greeter, !.name = name,
                                               !.failAt = IF fail THEN 1 ELSE 0,
                                               !.ok = r.ret]
        /\ UNCHANGED handles

GetVersion(t) ==
    /\ last' = [Call("get_version", t) EXCEPT !.msg = hello_get_version]
    /\ UNCHANGED <<heap, g_error_buffer, g_has_error, handles>>

SetError(t, msg) ==
    LET e == hello_set_error(t, msg)
    IN  /\ g_error_buffer' = e.buffer
        /\ g_has_error' = e.has
        /\ last' = [Call("set_error", t) EXCEPT !.msg = msg]
        /\ UNCHANGED <<heap, handles>>

ClearError(t) ==
    LET e == hello_clear_error(t)
    IN  /\ g_error_buffer' = e.buffer
        /\ g_has_error' = e.has
        /\ last' = Call("clear_error", t)
        /\ UNCHANGED <<heap, handles>>

\* any one call on a thread of T, its arguments drawn from the given sets;
\* the callers hold at most maxLive greeters at a time
Calls(T, maxLive, configs, failAts, names, sizes, msgs) ==
    \E t \in T :
        \/ /\ Cardinality(handles) < maxLive
           /\ \E config \in configs, failAt \in failAts : Create(t, config, failAt)
        \/ \E greeter \in handles \cup {NULL} : Destroy(t, greeter)
        \/ \E greeter \in handles \cup {NULL}, bufNull \in BOOLEAN, size \in sizes :
              Greet(t, greeter, bufNull, size)
        \/ \E greeter \in handles \cup {NULL} : GetName(t, greeter)
        \/ \E greeter \in handles \cup {NULL}, name \in names, fail \in BOOLEAN :
              SetName(t, greeter, name, fail)
        \/ GetVersion(t)
        \/ \E msg \in msgs : SetError(t, msg)
        \/ ClearError(t)

\* one thread, one greeter at a time, every kind of configuration and name
Next == Calls({"A"}, 1, ConfigArgs, 0..3, NameArgs, {0, 1, MaxCap}, MessageArgs)

Spec == Init /\ [][Next]_vars

\* one thread holding up to MaxLive greeters at once
NextHeap ==
    Calls({"A"}, MaxLive,
          {<<>>, <<[name |-> Str(<<>>), greeting |-> NullStr, uppercase |-> FALSE]>>},
          0..3, {Str(ShortName)}, {MaxCap}, {<<"T","e","s","t"," ","e","r","r","o","r"," ","4","2">>})

SpecHeap == Init /\ [][NextHeap]_vars

\* one thread, one greeter at a time, every valid configuration, no allocation
\* failure, every buffer capacity up to MaxCap
NextFormat ==
    Calls({"A"}, 1,
          {c \in ConfigArgs : c = <<>> \/ validate_name(c[1].name).ok \/ c[1].name = NullStr},
          {0}, {Str(ShortName)}, SizeArgs, {<<>>})

SpecFormat == Init /\ [][NextFormat]_vars

\* two threads sharing one greeter
NextThreads ==
    Calls(Threads, 1,
          {<<>>, <<[name |-> Str(<<>>), greeting |-> NullStr, uppercase |-> FALSE]>>},
          {0, 1}, {Str(ShortName), Str(<<>>)}, {0, MaxCap}, {<<>>, <<"T","e","s","t"," ","e","r","r","o","r"," ","4","2">>})

SpecThreads == Init /\ [][NextThreads]_vars

-----------------------------------------------------------------------------
(* What a caller observes *)

\* the text get_name returns for a live greeter
ObservedName(h, greeter) == h[hello_greeter_get_name(h, greeter).ret].str

\* the name rule of the specification: present, 1..255 units
ValidName(name) ==
    /\ name # NullStr
    /\ Len(name[1]) >= 1
    /\ Len(name[1]) <= MAX_NAME_LENGTH - 1

\* the name and greeting a configuration asks for, defaults filled in
WantedName(config) ==
    IF config = <<>> \/ config[1].name = NullStr THEN Str(<<"W","o","r","l","d">>) ELSE config[1].name
WantedGreeting(config) ==
    IF config = <<>> \/ config[1].greeting = NullStr THEN Str(<<"H","e","l","l","o">>)
    ELSE config[1].greeting

\* an allocation of a call that makes `need` allocations on heap h fails
AllocFails(h, failAt, need) ==
    \/ failAt \in 1..need
    \/ Cardinality(Addr \ Live(h)) < need

\* the blocks owned by the greeters the callers hold
OwnedBlocks(h, hs) == UNION {{g, h[g].name, h[g].greeting} : g \in hs}

\* greeting + ", " + name + "!" of a live greeter, and its length
PlainText(h, greeter) == GreetingOf(h, greeter) \o <<","," ">> \o NameOf(h, greeter) \o <<"!">>
Required(h, greeter) == Len(GreetingOf(h, greeter)) + Len(NameOf(h, greeter)) + 3

\* the uppercase image of a text, character by character
UpperImage(s) == [i \in 1..Len(s) |-> toupper(s[i])]

\* the full rendering of a greeter: the plain text, uppercased when the flag is set
FullRendering(h, greeter) ==
    IF h[greeter].uppercase THEN UpperImage(PlainText(h, greeter))
    ELSE PlainText(h, greeter)

\* the latest call was a greet on a live greeter with a usable buffer
GreetRan == /\ last.op = "greet"
            /\ last.greeter # NULL
            /\ ~last.bufNull
            /\ last.size > 0

-----------------------------------------------------------------------------
(* Claims *)

\* C1: when set_name fails (null greeter, invalid name, or the allocation of
\* the new copy fails) it returns false, has_error() is true afterwards on the
\* calling thread, and get_name on every greeter returns the same name as
\* before the call.
C1_SetNameFailure ==
    [][ LET c == last' IN
        (/\ c.op = "set_name"
         /\ \/ c.greeter = NULL
            \/ ~ValidName(c.name)
            \/ AllocFails(heap, c.failAt, 1))
        => /\ c.ok = FALSE
           /\ g_has_error'[c.tid]
           /\ handles' = handles
           /\ \A g \in handles : ObservedName(heap', g) = ObservedName(heap, g)
      ]_vars

\* C1 witness: a set_name with a valid name on a live greeter whose allocation
\* failed; the greeter still has its name.
C1_Witness ==
    /\ last.op = "set_name"
    /\ last.greeter \in handles
    /\ ValidName(last.name)
    /\ last.failAt = 1
    /\ ~last.ok
    /\ hello_has_error(last.tid)
    /\ ObservedName(heap, last.greeter) = <<"W","o","r","l","d">>

\* C2: a create in which an allocation fails returns null, sets the error
\* channel and leaves the set of live heap blocks as it was; and in every
\* state the live heap blocks are exactly the struct, name and greeting of the
\* greeters returned and not yet destroyed, three distinct blocks each.
C2_CreateAtomicNoLeak ==
    /\ [](/\ Live(heap) = OwnedBlocks(heap, handles)
          /\ Cardinality(Live(heap)) = 3 * Cardinality(handles))
    /\ [][ LET c == last' IN
           (/\ c.op = "create"
            /\ ValidName(WantedName(c.config))
            /\ AllocFails(heap, c.failAt, 3))
           => /\ c.ptr = NULL
              /\ g_has_error'[c.tid]
              /\ handles' = handles
              /\ Live(heap') = Live(heap)
         ]_vars

\* C2 witness: a create whose third allocation (the greeting copy) failed
\* while another greeter is held.
C2_Witness ==
    /\ last.op = "create"
    /\ ValidName(WantedName(last.config))
    /\ last.failAt = 3
    /\ last.ptr = NULL
    /\ Cardinality(handles) = 1
    /\ Cardinality(Live(heap)) = 3

\* C3: create with an empty name or a name of 256 or more units returns null,
\* adds no greeter, allocates nothing, and leaves has_error() true with a
\* non-empty get_last_error(), whatever the channel held before.
C3_CreateInvalidName ==
    [][ LET c == last' IN
        (/\ c.op = "create"
         /\ c.config # <<>>
         /\ c.config[1].name # NullStr
         /\ \/ Len(c.config[1].name[1]) = 0
            \/ Len(c.config[1].name[1]) >= MAX_NAME_LENGTH)
        => /\ c.ptr = NULL
           /\ handles' = handles
           /\ heap' = heap
           /\ \A t \in Threads :
                 t = c.tid => /\ hello_has_error(t)'
                              /\ Len(hello_get_last_error(t)') > 0
      ]_vars

\* C3 witness: a create with a 256-unit name was refused.
C3_Witness ==
    /\ last.op = "create"
    /\ last.config # <<>>
    /\ last.config[1].name = Str(TooLongName)
    /\ last.ptr = NULL
    /\ Len(hello_get_last_error(last.tid)) > 0

\* C4: when the wanted name is valid and no allocation fails, create returns
\* a greeter whose get_name is exactly the wanted name; a field the
\* configuration omits (or a null configuration) is replaced by its own
\* default, "World" for the name and "Hello" for the greeting.
C4_CreateValidName ==
    [][ LET c == last' IN
        (/\ c.op = "create"
         /\ ValidName(WantedName(c.config))
         /\ ~AllocFails(heap, c.failAt, 3))
        => /\ c.ptr # NULL
           /\ c.ptr \notin handles
           /\ handles' = handles \cup {c.ptr}
           /\ ObservedName(heap', c.ptr) = WantedName(c.config)[1]
           /\ GreetingOf(heap', c.ptr) = WantedGreeting(c.config)[1]
      ]_vars

\* C4 witness: a create that gave the longest valid name and omitted the
\* greeting succeeded.
C4_Witness ==
    /\ last.op = "create"
    /\ last.config # <<>>
    /\ last.config[1].name = Str(LongestName)
    /\ last.config[1].greeting = NullStr
    /\ last.ptr \in handles
    /\ ObservedName(heap, last.ptr) = LongestName

\* C5: greet on a live greeter with a buffer of capacity > 0 that the
\* required length L = len(greeting) + len(name) + 3 reaches or exceeds
\* returns L, leaves the first capacity-1 characters of the full rendering in
\* the buffer, and has_error() is true afterwards.
C5_GreetShortfall ==
    (GreetRan /\ Required(heap, last.greeter) >= last.size)
    => /\ last.int = Required(heap, last.greeter)
       /\ last.buf = <<Take(FullRendering(heap, last.greeter), last.size - 1)>>
       /\ hello_has_error(last.tid)

\* C5 witness: an uppercase greeter greeted into a buffer of exactly L bytes.
C5_Witness ==
    /\ GreetRan
    /\ heap[last.greeter].uppercase
    /\ Required(heap, last.greeter) = last.size
    /\ Len(last.buf[1]) = last.size - 1

\* C6: greet returns L whatever the uppercase flag; with capacity > L the
\* buffer holds exactly greeting + ", " + name + "!", and with the flag set
\* it holds the uppercase image of what the flag unset would have left,
\* truncated or not.
C6_GreetRendering ==
    GreetRan
    => LET L       == Required(heap, last.greeter)
           unset   == IF last.size > L THEN PlainText(heap, last.greeter)
                      ELSE Take(PlainText(heap, last.greeter), last.size - 1)
       IN  /\ last.int = L
           /\ last.buf = <<IF heap[last.greeter].uppercase THEN UpperImage(unset)
                           ELSE unset>>

\* C6 witness: an uppercase greeter with a custom greeting and name greeted
\* into a buffer that is too small, and the buffer holds uppercase text.
C6_Witness ==
    /\ GreetRan
    /\ heap[last.greeter].uppercase
    /\ GreetingOf(heap, last.greeter) = <<"H","i">>
    /\ NameOf(heap, last.greeter) = <<"A","l">>
    /\ last.size = 6
    /\ last.buf = <<<<"H","I",","," ","A">>>>

\* C7: a call on one thread leaves what has_error() and get_last_error()
\* return on every other thread as it was.
C7_ErrorPerThread ==
    [][ \A t \in Threads :
          t # last'.tid => /\ hello_has_error(t)' = hello_has_error(t)
                           /\ hello_get_last_error(t)' = hello_get_last_error(t)
      ]_vars

\* C7 witness: thread B has just cleared its channel while the error thread A
\* recorded is still visible on A.
C7_Witness ==
    /\ last.op = "clear_error"
    /\ last.tid = "B"
    /\ ~hello_has_error("B")
    /\ hello_has_error("A")
    /\ hello_get_last_error("A") = <<"N","a","m","e"," ","c","a","n","n","o","t"," ","b","e"," ","e","m","p","t","y">>

\* C8: right after clear_error the calling thread observes has_error() false
\* and an empty get_last_error(); and get_last_error() is empty on every
\* thread whose has_error() is false.
C8_ClearError ==
    /\ last.op = "clear_error"
       => /\ ~hello_has_error(last.tid)
          /\ hello_get_last_error(last.tid) = <<>>
    /\ \A t \in Threads : ~hello_has_error(t) => hello_get_last_error(t) = <<>>

\* C8 witness: clear_error has just run on thread A, while thread B holds an
\* error set with an empty message.
C8_Witness ==
    /\ last.op = "clear_error"
    /\ last.tid = "A"
    /\ hello_has_error("B")
    /\ hello_get_last_error("B") = <<>>

\* C9: every greeter returned and not yet destroyed has a name of 1 to 255
\* units.
C9_NameBounded ==
    \A g \in handles :
        /\ Len(ObservedName(heap, g)) >= 1
        /\ Len(ObservedName(heap, g)) <= MAX_NAME_LENGTH - 1

\* C9 witness: set_name with an empty name has just been refused on a greeter
\* whose name has the greatest length allowed.
C9_Witness ==
    /\ last.op = "set_name"
    /\ last.greeter \in handles
    /\ last.name = Str(<<>>)
    /\ ~last.ok
    /\ Len(ObservedName(heap, last.greeter)) = MAX_NAME_LENGTH - 1

\* the call recorded in c succeeded
Succeeded(c) ==
    \/ c.op = "create" /\ c.ptr # NULL
    \/ c.op = "set_name" /\ c.ok
    \/ c.op = "get_name" /\ c.greeter # NULL
    \/ c.op = "greet" /\ c.int >= 0 /\ c.int < c.size
    \/ c.op = "destroy"
    \/ c.op = "get_version"

\* C10: a successful call (a create that returns a greeter, a set_name that
\* returns true, a get_name on a greeter, a greet whose required length is
\* below the capacity, destroy, get_version) leaves has_error() and
\* get_last_error() as they were.
C10_SuccessKeepsError ==
    [][ Succeeded(last')
        => \A t \in Threads :
              /\ hello_has_error(t)' = hello_has_error(t)
              /\ hello_get_last_error(t)' = hello_get_last_error(t)
      ]_vars

\* C10 witness: an earlier error is still visible after a greet that fitted
\* its buffer.
C10_Witness ==
    /\ last.op = "greet"
    /\ last.int >= 0
    /\ last.int < last.size
    /\ hello_has_error(last.tid)
    /\ hello_get_last_error(last.tid) = <<"N","a","m","e"," ","c","a","n","n","o","t"," ","b","e"," ","e","m","p","t","y">>

=============================================================================
